---- MODULE Spec2Model ----
(***************************************************************************)
(* Model of processCSVData, the CSV-to-summary aggregation of the two      *)
(* queue-time dashboards (DisneyQueueDashboard and its date-mode variant). *)
(*                                                                         *)
(* Both implementations are stepped in lockstep over the same rows:        *)
(* variant 1 is the first dashboard, variant 2 the date-mode dashboard.    *)
(* One step of the model is one call of the forEach callback (one data     *)
(* row folded into the four accumulators); the closing step is the sort    *)
(* of every series and the assembly of the returned ProcessedData.         *)
(*                                                                         *)
(* Instants are whole seconds of local time since the epoch; the +1 hour   *)
(* adjustment and getHours are both local-time operations, so the zone     *)
(* offset cancels and is not modelled.                                     *)
(***************************************************************************)
EXTENDS Integers, Sequences, FiniteSets

\* Largest number of data rows (lines after the header) of an input text.
MaxRows == 2
\* Largest number of earlier calls of processCSVData a call is compared with.
MaxCalls == 2
\* Largest number of fetches a dashboard issues.
MaxFetches == 3

Variants == {1, 2}

(***************************************************************************)
(* JavaScript values                                                       *)
(***************************************************************************)
\* A number that may be NaN.
Num(n) == [nan |-> FALSE, n |-> n]
NaN == [nan |-> TRUE, n |-> 0]
\* Comparisons with NaN are false.
Gt(a, b) == ~a.nan /\ ~b.nan /\ a.n > b.n
Ge(a, b) == ~a.nan /\ ~b.nan /\ a.n >= b.n
Lt(a, b) == ~a.nan /\ ~b.nan /\ a.n < b.n
Le(a, b) == ~a.nan /\ ~b.nan /\ a.n <= b.n

\* null / a value.
Null == << >>
Some(x) == << x >>

\* A destructured array position past the end of the row.
Undefined == "<undefined>"

(***************************************************************************)
(* Dates                                                                   *)
(***************************************************************************)
Day == 24 * 3600
At(d, h, mi, s) == d * Day + h * 3600 + mi * 60 + s

\* The text of a timestamp field is its instant, or BadTs when it is not a
\* date (the header's "ts", an empty field).
BadTs == 0 - 1

InvalidDate == [valid |-> FALSE, t |-> 0]
NewDate(timestamp) ==
  IF timestamp = BadTs THEN InvalidDate ELSE [valid |-> TRUE, t |-> timestamp]

GetTime(date) == IF date.valid THEN Num(date.t) ELSE NaN
GetHours(date) == IF date.valid THEN Num((date.t % Day) \div 3600) ELSE NaN

\* currentDate.setHours(currentDate.getHours() + 1)
SetHoursPlusOne(date) ==
  IF date.valid THEN [valid |-> TRUE, t |-> date.t + 3600] ELSE InvalidDate

\* toISOString: the calendar fields of the instant (throws on an invalid date,
\* which the callers test before using it).
ToISOString(date) ==
  [d  |-> date.t \div Day,
   h  |-> (date.t % Day) \div 3600,
   mi |-> (date.t % 3600) \div 60,
   s  |-> date.t % 60]
\* new Date(isoString)
DateOfISO(iso) == [valid |-> TRUE, t |-> At(iso.d, iso.h, iso.mi, iso.s)]

\* toLocaleTimeString('en-US', {hour: '2-digit', minute: '2-digit', hour12: false}):
\* "HH:MM", the seconds are dropped.
ToLocaleTimeString(date) ==
  << (date.t % Day) \div 3600, (date.t % 3600) \div 60 >>
\* new Date('1970/01/01 ' + time).getTime(), in milliseconds from local midnight.
ClockTime(time) == (time[1] * 60 + time[2]) * 60000

(***************************************************************************)
(* Row normalisation                                                       *)
(***************************************************************************)
\* parseInt(waitTime, 10)
ParseInt(s) ==
  CASE s = "0" -> Num(0)
    [] s = "1" -> Num(1)
    [] s = "2" -> Num(2)
    [] s = "-1" -> Num(0 - 1)
    [] OTHER -> NaN
\* x || 0
OrZero(x) == IF x.nan \/ x.n = 0 THEN 0 ELSE x.n

\* isOpen.toLowerCase()
ToLowerCase(s) ==
  CASE s = "TRUE" -> "true"
    [] s = "True" -> "true"
    [] OTHER -> s

\* rideName.trim(): the fields were trimmed when the line was split.
Trim(s) == s

(***************************************************************************)
(* Input                                                                   *)
(***************************************************************************)
Rides == {"A", "B"}

\* Source instants: adjusted 08:00, 10:00, 10:00:30, 18:00, 21:59 and 00:30 of
\* the next day.
Stamps ==
  {At(1, 7, 0, 0), At(1, 9, 0, 0), At(1, 9, 0, 30), At(1, 17, 0, 0),
   At(1, 20, 59, 0), At(1, 23, 30, 0)}

Row(ts, name, wait, upd, open) ==
  [timestamp |-> ts, rideName |-> name, waitTime |-> wait,
   lastUpdate |-> upd, isOpen |-> open]

\* The header line "ts,name,wait,upd,open".
HeaderRow == Row(BadTs, "name", "wait", 0, "open")
\* A blank line: one empty field, the other positions are undefined.
BlankRow == [timestamp |-> BadTs, rideName |-> Undefined, waitTime |-> Undefined,
             lastUpdate |-> 0, isOpen |-> Undefined]

\* The data rows a text may hold at line n. The last-update label of a row is
\* its line number, so that two rows of a text are never the same reading.
WellFormedRows(n) ==
  { Row(ts, name, wait, n, "true") : ts \in Stamps, name \in Rides, wait \in {"0", "1", "2"} }
    \cup { Row(ts, name, "2", n, "false") : ts \in Stamps, name \in Rides }
LenientRows(n) ==
  { Row(BadTs, "A", "1", n, "true"),
    Row(BadTs, "A", "1", n, "false"),
    Row(At(1, 9, 0, 0), "A", "abc", n, "true"),
    Row(At(1, 9, 0, 0), "A", "-1", n, "true"),
    Row(At(1, 9, 0, 0), "A", "1", n, "TRUE"),
    Row(At(1, 9, 0, 0), "A", "1", n, ""),
    BlankRow }
DataRows(n) == WellFormedRows(n) \cup LenientRows(n)

VARIABLES
  rows,           \* the lines of csvText read so far, split into fields; rows[1] is the header
  pc,             \* per variant: "fold", "thrown" or "done"
  latestEntries,  \* per variant: rideKey -> RideData
  maxWaitTimes,   \* per variant: rideKey -> RideMaxMinData
  minWaitTimes,   \* per variant: rideKey -> RideMaxMinData
  timeData,       \* per variant: rideKey -> sequence of TimeDataEntry
  index,          \* the number of elements of rows.slice(1) the forEach has visited
  returned,       \* per variant: Null, or Some(ProcessedData)
  calls,          \* the earlier calls of processCSVData: their text and how they ended
  \* The component state of the mounted dashboard (useState):
  dashboard,           \* which of the two dashboards is mounted
  allData,             \* ride_name -> RideData
  maxData,             \* ride_name -> RideMaxMinData
  minData,             \* ride_name -> RideMaxMinData
  attractionTimeData,  \* ride_name -> sequence of TimeDataEntry
  lastUpdated,         \* Null, or Some(label)
  isLoading,
  error,               \* Null, or Some(message)
  selectedAttraction,
  searchTerm,
  inflight,            \* the calls of fetchCSVFromS3 that have not finished
  issued,              \* the number of calls of fetchCSVFromS3 so far
  finished,            \* the call of fetchCSVFromS3 that finished last, and how
  applied              \* the texts whose ProcessedData reached the setters, in order

foldVars ==
  << rows, pc, latestEntries, maxWaitTimes, minWaitTimes, timeData, index, returned >>
uiVars ==
  << dashboard, allData, maxData, minData, attractionTimeData, lastUpdated, isLoading,
     error, selectedAttraction, searchTerm, inflight, issued, finished, applied >>
vars == << foldVars, calls, uiVars >>

\* obj[key] = value
Put(obj, key, value) ==
  [k \in DOMAIN obj \cup {key} |-> IF k = key THEN value ELSE obj[k]]
\* The object literal {}.
EmptyObject == [k \in {} |-> 0]

(***************************************************************************)
(* The forEach callback: one data row folded into the accumulators of one  *)
(* variant. acc is the record of the four accumulators and the position.   *)
(***************************************************************************)
Thrown(acc) == [acc EXCEPT !.pc = "thrown"]

\* As PushTimeData, without the null of a closed reading.
PushTimeDataWithWait(td, rideKey, currentDate, numericWaitTime, isRideOpen) ==
  LET currentHour == GetHours(currentDate)
      created == IF rideKey \in DOMAIN td THEN td ELSE Put(td, rideKey, << >>)
  IN  IF Ge(currentHour, Num(8)) /\ Le(currentHour, Num(21))
      THEN Put(created, rideKey,
               Append(created[rideKey],
                      [time |-> ToLocaleTimeString(currentDate),
                       waitTime |-> Some(numericWaitTime),
                       isOpen |-> isRideOpen]))
      ELSE created

\* As PushTimeData, with the series created only by a reading that is pushed.
PushTimeDataKeyOnPush(td, rideKey, currentDate, numericWaitTime, isRideOpen) ==
  LET currentHour == GetHours(currentDate)
      created == IF rideKey \in DOMAIN td THEN td ELSE Put(td, rideKey, << >>)
  IN  IF Ge(currentHour, Num(8)) /\ Le(currentHour, Num(21))
      THEN Put(created, rideKey,
               Append(created[rideKey],
                      [time |-> ToLocaleTimeString(currentDate),
                       waitTime |-> IF isRideOpen THEN Some(numericWaitTime) ELSE Null,
                       isOpen |-> isRideOpen]))
      ELSE td

\* As PushTimeData, with < 21 for <= 21.
PushTimeDataBefore21(td, rideKey, currentDate, numericWaitTime, isRideOpen) ==
  LET currentHour == GetHours(currentDate)
      created == IF rideKey \in DOMAIN td THEN td ELSE Put(td, rideKey, << >>)
  IN  IF Ge(currentHour, Num(8)) /\ Lt(currentHour, Num(21))
      THEN Put(created, rideKey,
               Append(created[rideKey],
                      [time |-> ToLocaleTimeString(currentDate),
                       waitTime |-> IF isRideOpen THEN Some(numericWaitTime) ELSE Null,
                       isOpen |-> isRideOpen]))
      ELSE created

\* if (!timeData[rideKey]) timeData[rideKey] = [];
\* if (currentHour >= 8 && currentHour <= 21) timeData[rideKey].push({...})
PushTimeData(td, rideKey, currentDate, numericWaitTime, isRideOpen) ==
  LET currentHour == GetHours(currentDate)
      created == IF rideKey \in DOMAIN td THEN td ELSE Put(td, rideKey, << >>)
  IN  IF Ge(currentHour, Num(8)) /\ Le(currentHour, Num(21))
      THEN Put(created, rideKey,
               Append(created[rideKey],
                      [time |-> ToLocaleTimeString(currentDate),
                       waitTime |-> IF isRideOpen THEN Some(numericWaitTime) ELSE Null,
                       isOpen |-> isRideOpen]))
      ELSE created

\* As LatestReplaces, with >= for >: an equal timestamp overwrites.
LatestReplacesOnEqual(le, rideKey, currentDate) ==
  \/ rideKey \notin DOMAIN le
  \/ Ge(GetTime(currentDate), GetTime(DateOfISO(le[rideKey].timestamp)))

\* !latestEntries[rideKey] || currentDate.getTime() > existingDate
LatestReplaces(le, rideKey, currentDate) ==
  \/ rideKey \notin DOMAIN le
  \/ Gt(GetTime(currentDate), GetTime(DateOfISO(le[rideKey].timestamp)))

\* As MaxReplaces, with the comparison of the minimum.
MaxReplacesOnLess(v, mx, rideKey, numericWaitTime) ==
  \/ rideKey \notin DOMAIN mx
  \/ numericWaitTime < mx[rideKey].max_wait_time

\* !maxWaitTimes[rideKey] || numericWaitTime > maxWaitTimes[rideKey].max_wait_time!
\* (variant 2 compares with (max_wait_time || 0)).
MaxReplaces(v, mx, rideKey, numericWaitTime) ==
  \/ rideKey \notin DOMAIN mx
  \/ IF v = 1
     THEN numericWaitTime > mx[rideKey].max_wait_time
     ELSE numericWaitTime > OrZero(Num(mx[rideKey].max_wait_time))

\* !minWaitTimes[rideKey] || numericWaitTime < minWaitTimes[rideKey].min_wait_time!
\* (variant 2 compares with (min_wait_time || Infinity): a stored 0 is falsy and
\* reads as Infinity, which every wait is below).
MinReplaces(v, mn, rideKey, numericWaitTime) ==
  \/ rideKey \notin DOMAIN mn
  \/ IF v = 1
     THEN numericWaitTime < mn[rideKey].min_wait_time
     ELSE \/ mn[rideKey].min_wait_time = 0
          \/ numericWaitTime < mn[rideKey].min_wait_time

\* As InMinWindow, with <= 18 for < 18.
InMinWindowThrough18(currentHour) == Ge(currentHour, Num(10)) /\ Le(currentHour, Num(18))

\* currentHour >= 10 && currentHour < 18
InMinWindow(currentHour) == Ge(currentHour, Num(10)) /\ Lt(currentHour, Num(18))

Callback(v, acc, row) ==
  IF row.isOpen = Undefined \/ row.rideName = Undefined
  THEN Thrown(acc)   \* TypeError: isOpen.toLowerCase() / rideName.trim() of undefined
  ELSE
  LET numericWaitTime == OrZero(ParseInt(row.waitTime))
      isRideOpen == ToLowerCase(row.isOpen) = "true"
      rideKey == Trim(row.rideName)
      currentDate == SetHoursPlusOne(NewDate(row.timestamp))
      currentHour == GetHours(currentDate)
      a1 == [acc EXCEPT !.timeData =
               PushTimeData(acc.timeData, rideKey, currentDate, numericWaitTime, isRideOpen)]
      \* currentDate.toISOString() throws a RangeError on an invalid date
      a2 == IF LatestReplaces(a1.latestEntries, rideKey, currentDate)
            THEN IF ~currentDate.valid THEN Thrown(a1)
                 ELSE [a1 EXCEPT !.latestEntries =
                         Put(a1.latestEntries, rideKey,
                             [ride_name |-> rideKey,
                              wait_time |-> numericWaitTime,
                              last_update |-> row.lastUpdate,
                              is_open |-> isRideOpen,
                              timestamp |-> ToISOString(currentDate)])]
            ELSE a1
      a3 == IF a2.pc # "thrown" /\ isRideOpen
               /\ MaxReplaces(v, a2.maxWaitTimes, rideKey, numericWaitTime)
            THEN IF ~currentDate.valid THEN Thrown(a2)
                 ELSE [a2 EXCEPT !.maxWaitTimes =
                         Put(a2.maxWaitTimes, rideKey,
                             [ride_name |-> rideKey,
                              max_wait_time |-> numericWaitTime,
                              timestamp |-> ToISOString(currentDate)])]
            ELSE a2
      a4 == IF a3.pc # "thrown" /\ isRideOpen /\ InMinWindow(currentHour)
               /\ MinReplaces(v, a3.minWaitTimes, rideKey, numericWaitTime)
            THEN [a3 EXCEPT !.minWaitTimes =
                    Put(a3.minWaitTimes, rideKey,
                        [ride_name |-> rideKey,
                         min_wait_time |-> numericWaitTime,
                         timestamp |-> ToISOString(currentDate)])]
            ELSE a3
  IN  a4

(***************************************************************************)
(* Array.prototype.sort with the comparator of processCSVData: a stable    *)
(* sort (ECMAScript 2019), here by insertion.                              *)
(***************************************************************************)
\* (a, b) => new Date('1970/01/01 ' + a.time).getTime() - new Date('1970/01/01 ' + b.time).getTime()
Compare(a, b) == ClockTime(a.time) - ClockTime(b.time)

RECURSIVE InsertSortedUnstable(_, _)
\* As InsertSorted, with >= 0 for > 0: x goes before the elements equal to it.
InsertSortedUnstable(s, x) ==
  IF s = << >> THEN << x >>
  ELSE IF Compare(s[Len(s)], x) >= 0
       THEN Append(InsertSortedUnstable(SubSeq(s, 1, Len(s) - 1), x), s[Len(s)])
       ELSE Append(s, x)

RECURSIVE InsertSorted(_, _)
\* x goes behind the last element that does not compare greater than x.
InsertSorted(s, x) ==
  IF s = << >> THEN << x >>
  ELSE IF Compare(s[Len(s)], x) > 0
       THEN Append(InsertSorted(SubSeq(s, 1, Len(s) - 1), x), s[Len(s)])
       ELSE Append(s, x)

RECURSIVE SortSeries(_)
SortSeries(s) ==
  IF s = << >> THEN << >>
  ELSE InsertSorted(SortSeries(SubSeq(s, 1, Len(s) - 1)), s[Len(s)])

\* Object.keys(timeData).forEach(key => timeData[key].sort(...))
SortTimeData(td) == [k \in DOMAIN td |-> SortSeries(td[k])]

(***************************************************************************)
(* Assembly of the returned ProcessedData                                  *)
(***************************************************************************)
RECURSIVE ReduceLast(_, _, _)
\* As ReduceMax, without Math.max: the timestamp of the last entry visited.
ReduceLast(le, keys, max) ==
  IF keys = {} THEN max
  ELSE LET k == CHOOSE x \in keys : TRUE
       IN  ReduceLast(le, keys \ {k}, GetTime(DateOfISO(le[k].timestamp)).n)

RECURSIVE ReduceMax(_, _, _)
\* keys.reduce((max, k) => Math.max(max, new Date(le[k].timestamp).getTime()), max)
ReduceMax(le, keys, max) ==
  IF keys = {} THEN max
  ELSE LET k == CHOOSE x \in keys : TRUE
           t == GetTime(DateOfISO(le[k].timestamp)).n
       IN  ReduceMax(le, keys \ {k}, IF t > max THEN t ELSE max)

\* currentData.length > 0 ? currentData.reduce(..., 0) : null, then
\* latestTimestamp ? new Date(latestTimestamp).toISOString() : null
LatestTimestamp(le) ==
  LET latestTimestamp == IF DOMAIN le # {} THEN Some(ReduceMax(le, DOMAIN le, 0)) ELSE Null
  IN  IF latestTimestamp # Null /\ latestTimestamp[1] # 0
      THEN Some(ToISOString([valid |-> TRUE, t |-> latestTimestamp[1]]))
      ELSE Null

\* The arrays Object.values(...) are kept as the objects they list.
Assemble(acc) ==
  [currentData |-> acc.latestEntries,
   maxData |-> acc.maxWaitTimes,
   minData |-> acc.minWaitTimes,
   timeData |-> SortTimeData(acc.timeData),
   latestTimestamp |-> LatestTimestamp(acc.latestEntries)]

(***************************************************************************)
(* The state machine                                                       *)
(***************************************************************************)
Acc(v) ==
  [latestEntries |-> latestEntries[v], maxWaitTimes |-> maxWaitTimes[v],
   minWaitTimes |-> minWaitTimes[v], timeData |-> timeData[v], pc |-> pc[v]]

\* As Slice1, with slice(0): the first line is kept.
Slice0(rs) == rs

\* rows.slice(1)
Slice1(rs) == SubSeq(rs, 2, Len(rs))

RECURSIVE ForEach(_, _, _, _)
\* The forEach over data, continued behind its first `from` elements; an
\* exception ends it.
ForEach(v, acc, data, from) ==
  IF acc.pc # "fold" \/ from >= Len(data) THEN acc
  ELSE ForEach(v, Callback(v, acc, data[from + 1]), data, from + 1)

\* No call of fetchCSVFromS3 has finished.
NoFetch == [id |-> 0, outcome |-> "none", status |-> 0]

\* The useState initial values of dashboard d.
Mounted(d) ==
  /\ dashboard = d
  /\ allData = EmptyObject
  /\ maxData = EmptyObject
  /\ minData = EmptyObject
  /\ attractionTimeData = EmptyObject
  /\ lastUpdated = Null
  /\ isLoading = FALSE
  /\ error = Null
  /\ selectedAttraction = ""
  /\ searchTerm = ""
  /\ inflight = {}
  /\ issued = 0
  /\ finished = NoFetch
  /\ applied = << >>

\* The entry of processCSVData on a text whose first line is one of `first`:
\* the fresh accumulators.
Entered(first) ==
  /\ rows \in {<< line >> : line \in first}
  /\ pc = [v \in Variants |-> "fold"]
  /\ latestEntries = [v \in Variants |-> EmptyObject]
  /\ maxWaitTimes = [v \in Variants |-> EmptyObject]
  /\ minWaitTimes = [v \in Variants |-> EmptyObject]
  /\ timeData = [v \in Variants |-> EmptyObject]
  /\ index = 0
  /\ returned = [v \in Variants |-> Null]

\* csvText.trim().split('\n'): the first line, and the fresh accumulators. An
\* empty text splits into one blank line.
Init ==
  /\ Entered({HeaderRow, BlankRow})
  /\ calls = << >>
  /\ Mounted(1)

\* rows.slice(1).forEach(...): the text has a further line, and the forEach
\* reaches it.
ForEachRowOf(lines) ==
  /\ \E v \in Variants : pc[v] = "fold"
  /\ rows[1] # BlankRow
  /\ Len(rows) <= MaxRows
  /\ \E row \in lines :
       LET read == Append(rows, row)
           next == [v \in Variants |-> ForEach(v, Acc(v), Slice1(read), index)]
       IN  /\ rows' = read
           /\ index' = Len(Slice1(read))
           /\ pc' = [v \in Variants |-> next[v].pc]
           /\ latestEntries' = [v \in Variants |-> next[v].latestEntries]
           /\ maxWaitTimes' = [v \in Variants |-> next[v].maxWaitTimes]
           /\ minWaitTimes' = [v \in Variants |-> next[v].minWaitTimes]
           /\ timeData' = [v \in Variants |-> next[v].timeData]
           /\ UNCHANGED << returned, calls, uiVars >>

ForEachRow == ForEachRowOf(DataRows(Len(rows) + 1))

\* The text has no further line: the forEach ends, every series is sorted in
\* place and the ProcessedData is returned.
Return ==
  /\ \E v \in Variants : pc[v] = "fold"
  /\ LET last == [v \in Variants |-> ForEach(v, Acc(v), Slice1(rows), index)]
         done(v) == last[v].pc = "fold"
     IN  /\ index' = Len(Slice1(rows))
         /\ latestEntries' = [v \in Variants |-> last[v].latestEntries]
         /\ maxWaitTimes' = [v \in Variants |-> last[v].maxWaitTimes]
         /\ minWaitTimes' = [v \in Variants |-> last[v].minWaitTimes]
         /\ timeData' = [v \in Variants |->
                           IF done(v) THEN SortTimeData(last[v].timeData)
                           ELSE last[v].timeData]
         /\ returned' = [v \in Variants |->
                           IF done(v) THEN Some(Assemble(last[v])) ELSE returned[v]]
         /\ pc' = [v \in Variants |-> IF done(v) THEN "done" ELSE last[v].pc]
  /\ UNCHANGED << rows, calls, uiVars >>

Next == ForEachRow \/ Return

Spec == Init /\ [][Next]_vars

(***************************************************************************)
(* Calls of processCSVData one after the other. The function is            *)
(* synchronous, so a call runs from its entry to its return before the     *)
(* next one is entered.                                                    *)
(***************************************************************************)
\* The data rows of the texts of these calls, at line n.
CallRows(n) ==
  { Row(At(1, 9, 0, 0), "A", "1", n, "true"),
    Row(At(1, 7, 0, 0), "A", "2", n, "false") }

\* As NewAccumulator, with the object declared outside the function: the next
\* call goes on with what the last one left.
KeptAccumulator(left) == left

\* const latestEntries = {} (and the three others) in the body of
\* processCSVData: a new object in every call, whatever the last call left.
NewAccumulator(left) == EmptyObject

\* The call has ended; processCSVData is called with another text.
CallAgain ==
  /\ \A v \in Variants : pc[v] # "fold"
  /\ Len(calls) < MaxCalls
  /\ calls' = Append(calls, [text |-> rows, pc |-> pc, returned |-> returned])
  /\ rows' = << HeaderRow >>
  /\ pc' = [v \in Variants |-> "fold"]
  /\ latestEntries' = [v \in Variants |-> NewAccumulator(latestEntries[v])]
  /\ maxWaitTimes' = [v \in Variants |-> NewAccumulator(maxWaitTimes[v])]
  /\ minWaitTimes' = [v \in Variants |-> NewAccumulator(minWaitTimes[v])]
  /\ timeData' = [v \in Variants |-> NewAccumulator(timeData[v])]
  /\ index' = 0
  /\ returned' = [v \in Variants |-> Null]
  /\ UNCHANGED uiVars

InitCalls ==
  /\ Entered({HeaderRow})
  /\ calls = << >>
  /\ Mounted(1)

NextCalls == ForEachRowOf(CallRows(Len(rows) + 1)) \/ Return \/ CallAgain

SpecCalls == InitCalls /\ [][NextCalls]_vars

(***************************************************************************)
(* The dashboard: park buttons, fetchCSVFromS3, search and selection.      *)
(***************************************************************************)
\* The texts a response may carry: the header alone, readings of ride A, of
\* ride B, of both, and a text with a row whose timestamp is not a date.
TextNone == << HeaderRow >>
TextA == << HeaderRow, Row(At(1, 9, 0, 0), "A", "1", 2, "true") >>
TextB == << HeaderRow, Row(At(1, 17, 0, 0), "B", "2", 2, "true") >>
TextAB ==
  << HeaderRow, Row(At(1, 7, 0, 0), "A", "2", 2, "true"),
     Row(At(1, 9, 0, 0), "B", "0", 3, "false") >>
TextBad == << HeaderRow, Row(BadTs, "A", "1", 2, "true") >>
Texts == {TextNone, TextA, TextB, TextAB, TextBad}

\* The statuses of a response that is not ok.
Statuses == {403, 404}
Parks == {"disneyland", "studios"}
SearchTerms == {"", "A", "B"}

\* `HTTP error! status: ${response.status}`
HttpErrorMessage(status) ==
  CASE status = 403 -> "HTTP error! status: 403"
    [] status = 404 -> "HTTP error! status: 404"
\* The message of the TypeError of a fetch that the network fails.
NetworkErrorMessage == "Failed to fetch"
\* The message of the RangeError of toISOString() on an Invalid Date.
RangeErrorMessage == "Invalid time value"

\* processCSVData(csvText) of dashboard v: Some(ProcessedData), or Null when
\* it throws.
ProcessCSVData(v, text) ==
  LET acc == ForEach(v, [latestEntries |-> EmptyObject, maxWaitTimes |-> EmptyObject,
                         minWaitTimes |-> EmptyObject, timeData |-> EmptyObject,
                         pc |-> "fold"], Slice1(text), 0)
  IN  IF acc.pc = "fold" THEN Some(Assemble(acc)) ELSE Null

\* latestTimestamp ? new Date(latestTimestamp).toLocaleTimeString(...) : 'Unknown'
LastUpdatedLabel(latestTimestamp) ==
  IF latestTimestamp # Null
  THEN [known |-> TRUE, time |-> ToLocaleTimeString(DateOfISO(latestTimestamp[1]))]
  ELSE [known |-> FALSE, time |-> << 0, 0 >>]

\* As SetState, with the new entries merged into the ones displayed.
SetStateMerged(displayed, value) ==
  [k \in DOMAIN displayed \cup DOMAIN value |->
     IF k \in DOMAIN value THEN value[k] ELSE displayed[k]]

\* setAllData(currentData) and the like: the state is the value passed.
SetState(displayed, value) == value

\* As ButtonEnabled, without disabled={isLoading}.
ButtonAlwaysEnabled == TRUE

\* disabled={isLoading} of the two park buttons.
ButtonEnabled == ~isLoading

\* As Settled, with the failed request sent again.
Retried(calling, f) == (calling \ {f}) \cup {[id |-> f.id, stage |-> "fetch"]}

\* fetchCSVFromS3 has run to its end: the call is over.
Settled(calling, f) == calling \ {f}

\* entry.ride_name.toLowerCase().includes(searchTerm.toLowerCase()), for names
\* and terms of one letter.
Includes(name, term) == term = "" \/ ToLowerCase(name) = ToLowerCase(term)

\* filteredAttractions(): the names, kept as their set.
FilteredAttractions == {name \in DOMAIN allData : Includes(name, searchTerm)}

\* A click on an enabled park button: fetchCSVFromS3 runs to its first await.
\* The date-mode dashboard clears the search and the selection first.
ParkClick(park) ==
  /\ ButtonEnabled
  /\ issued < MaxFetches
  /\ issued' = issued + 1
  /\ inflight' = inflight \cup {[id |-> issued + 1, stage |-> "fetch"]}
  /\ isLoading' = TRUE
  /\ error' = Null
  /\ IF dashboard = 2
     THEN searchTerm' = "" /\ selectedAttraction' = ""
     ELSE UNCHANGED << searchTerm, selectedAttraction >>
  /\ UNCHANGED << dashboard, allData, maxData, minData, attractionTimeData, lastUpdated,
                  finished, applied >>
  /\ UNCHANGED << foldVars, calls >>

\* catch (err) { setError(err.message) } finally { setIsLoading(false) }
Catch(f, outcome, status, message) ==
  /\ error' = Some(message)
  /\ isLoading' = FALSE
  /\ inflight' = Settled(inflight, f)
  /\ finished' = [id |-> f.id, outcome |-> outcome, status |-> status]
  /\ UNCHANGED << dashboard, allData, maxData, minData, attractionTimeData, lastUpdated,
                  selectedAttraction, searchTerm, issued, applied >>
  /\ UNCHANGED << foldVars, calls >>

\* await fetch(url) resolves: an ok response goes on to await response.text(),
\* another one throws the HTTP error.
FetchResolves ==
  \E f \in inflight :
    /\ f.stage = "fetch"
    /\ \/ /\ inflight' = (inflight \ {f}) \cup {[f EXCEPT !.stage = "text"]}
          /\ UNCHANGED << dashboard, allData, maxData, minData, attractionTimeData,
                          lastUpdated, isLoading, error, selectedAttraction, searchTerm,
                          issued, finished, applied >>
          /\ UNCHANGED << foldVars, calls >>
       \/ \E status \in Statuses : Catch(f, "http", status, HttpErrorMessage(status))

\* await fetch(url) or await response.text() rejects: the network failed.
Rejects ==
  \E f \in inflight : Catch(f, "network", 0, NetworkErrorMessage)

\* await response.text() resolves: processCSVData, then the five setters; or
\* the catch block when processCSVData throws.
TextResolves ==
  \E f \in inflight, csvText \in Texts :
    /\ f.stage = "text"
    /\ LET processed == ProcessCSVData(dashboard, csvText)
       IN  IF processed = Null
           THEN Catch(f, "exception", 0, RangeErrorMessage)
           ELSE /\ allData' = SetState(allData, processed[1].currentData)
                /\ maxData' = SetState(maxData, processed[1].maxData)
                /\ minData' = SetState(minData, processed[1].minData)
                /\ attractionTimeData' = SetState(attractionTimeData, processed[1].timeData)
                /\ lastUpdated' = Some(LastUpdatedLabel(processed[1].latestTimestamp))
                /\ isLoading' = FALSE
                /\ inflight' = Settled(inflight, f)
                /\ finished' = [id |-> f.id, outcome |-> "applied", status |-> 200]
                /\ applied' = Append(applied, csvText)
                /\ UNCHANGED << dashboard, error, selectedAttraction, searchTerm, issued >>
                /\ UNCHANGED << foldVars, calls >>

\* A click on an attraction of the categorised list.
AttractionClick ==
  \E name \in DOMAIN allData :
    /\ selectedAttraction' = name
    /\ UNCHANGED << dashboard, allData, maxData, minData, attractionTimeData, lastUpdated,
                    isLoading, error, searchTerm, inflight, issued, finished, applied >>
    /\ UNCHANGED << foldVars, calls >>

\* The first dashboard's <select>: the empty option or a filtered attraction.
SelectChange ==
  /\ dashboard = 1
  /\ \E value \in {""} \cup FilteredAttractions :
       /\ selectedAttraction' = value
       /\ UNCHANGED << dashboard, allData, maxData, minData, attractionTimeData,
                       lastUpdated, isLoading, error, searchTerm, inflight, issued,
                       finished, applied >>
       /\ UNCHANGED << foldVars, calls >>

\* The date-mode dashboard's suggestion list, shown while there is data and a
\* search term.
SuggestionClick ==
  /\ dashboard = 2
  /\ DOMAIN allData # {}
  /\ searchTerm # ""
  /\ \E attraction \in FilteredAttractions :
       /\ selectedAttraction' = attraction
       /\ searchTerm' = ""
       /\ UNCHANGED << dashboard, allData, maxData, minData, attractionTimeData,
                       lastUpdated, isLoading, error, inflight, issued, finished, applied >>
       /\ UNCHANGED << foldVars, calls >>

\* Typing in the search input; the date-mode dashboard shows it only while
\* there is data.
SearchInput ==
  /\ dashboard = 1 \/ DOMAIN allData # {}
  /\ \E term \in SearchTerms :
       /\ searchTerm' = term
       /\ UNCHANGED << dashboard, allData, maxData, minData, attractionTimeData,
                       lastUpdated, isLoading, error, selectedAttraction, inflight, issued,
                       finished, applied >>
       /\ UNCHANGED << foldVars, calls >>

InitUI ==
  /\ \E d \in Variants : Mounted(d)
  /\ Entered({HeaderRow})
  /\ calls = << >>

NextUI ==
  \/ \E park \in Parks : ParkClick(park)
  \/ FetchResolves
  \/ Rejects
  \/ TextResolves
  \/ AttractionClick
  \/ SelectChange
  \/ SuggestionClick
  \/ SearchInput

SpecUI == InitUI /\ [][NextUI]_vars

(***************************************************************************)
(* The readings of the text, in the words of the specification             *)
(***************************************************************************)
\* The data lines: every line behind the first.
DataLines == Tail(rows)

SetMax(S) == CHOOSE x \in S : \A y \in S : y <= x
SetMin(S) == CHOOSE x \in S : \A y \in S : x <= y

\* A line with all five fields.
HasFields(row) == row.rideName # Undefined /\ row.isOpen # Undefined
ValidTimestamp(row) == row.timestamp # BadTs
\* Source timestamp + 1 hour.
AdjustedTimestamp(row) == row.timestamp + 3600
\* Source hour + 1, wrapping at 24.
HourOfDay(row) == (((row.timestamp % Day) \div 3600) + 1) % 24
MinuteOfHour(row) == (row.timestamp % 3600) \div 60
\* The open flag is "true", case-insensitively.
IsOpenFlag(row) == row.isOpen \in {"true", "TRUE", "True"}
\* The wait field as an integer, 0 when it is not a numeral.
WaitMinutes(row) ==
  CASE row.waitTime = "0" -> 0
    [] row.waitTime = "1" -> 1
    [] row.waitTime = "2" -> 2
    [] row.waitTime = "-1" -> 0 - 1
    [] OTHER -> 0

\* The positions in DataLines of the rows of ride k.
RowsOf(k) == {i \in 1..Len(DataLines) : DataLines[i].rideName = k}
OpenRowsOf(k) == {i \in RowsOf(k) : IsOpenFlag(DataLines[i])}
\* Open, and adjusted hour in [10,18).
InTroughWindow(row) ==
  /\ HasFields(row) /\ ValidTimestamp(row) /\ IsOpenFlag(row)
  /\ 10 <= HourOfDay(row) /\ HourOfDay(row) < 18
TroughRowsOf(k) == {i \in RowsOf(k) : InTroughWindow(DataLines[i])}
\* Adjusted hour in [8,21].
InDisplayWindow(row) ==
  /\ HasFields(row) /\ ValidTimestamp(row)
  /\ 8 <= HourOfDay(row) /\ HourOfDay(row) <= 21
DisplayRowsOf(k) == {i \in RowsOf(k) : InDisplayWindow(DataLines[i])}

\* The instant an entry's timestamp names.
InstantOf(entry) == DateOfISO(entry.timestamp).t

\* The line the forEach step of this transition folded.
RowFolded == rows'[Len(rows')]
FoldsARow == Len(rows') = Len(rows) + 1

(***************************************************************************)
(* C1                                                                      *)
(***************************************************************************)
C1_LatestOfRide(v, k) ==
  LET valid == {i \in RowsOf(k) : ValidTimestamp(DataLines[i])}
      newest == SetMax({AdjustedTimestamp(DataLines[i]) : i \in valid})
      first == SetMin({i \in valid : AdjustedTimestamp(DataLines[i]) = newest})
      e == latestEntries[v][k]
  IN  IF valid = {} THEN k \notin DOMAIN latestEntries[v]
      ELSE /\ k \in DOMAIN latestEntries[v]
           /\ InstantOf(e) = newest
           /\ e.wait_time = WaitMinutes(DataLines[first])
           /\ e.is_open = IsOpenFlag(DataLines[first])
           /\ e.last_update = DataLines[first].lastUpdate

\* C1: after any prefix of rows has been folded, the latest entry of each ride
\* carries the maximum adjusted timestamp (source + 1 hour) among that ride's
\* valid-timestamp rows, and its wait, open flag and last-update label are those
\* of the first row in source order with that timestamp: a row that is not
\* strictly later than the stored one never overwrites it.
C1_LatestIsFirstNewest ==
  \A v \in Variants : pc[v] # "thrown" =>
    \A k \in Rides : C1_LatestOfRide(v, k)

\* Two rows of one ride share the newest timestamp and differ in their wait;
\* both are folded.
C1_Witness ==
  \E v \in Variants, k \in Rides : \E i, j \in RowsOf(k) :
    /\ pc[v] = "fold" /\ i < j
    /\ ValidTimestamp(DataLines[i])
    /\ DataLines[i].timestamp = DataLines[j].timestamp
    /\ WaitMinutes(DataLines[i]) # WaitMinutes(DataLines[j])
    /\ InstantOf(latestEntries[v][k]) = AdjustedTimestamp(DataLines[i])

(***************************************************************************)
(* C2                                                                      *)
(***************************************************************************)
\* C2: after any prefix of rows has been folded, a ride has a peak entry if and
\* only if one of its rows so far was open, and max_wait_time is then the
\* maximum wait among the ride's open rows (so it never decreases, and closed
\* rows never change it).
C2_PeakIsMaximum ==
  \A v \in Variants : pc[v] # "thrown" =>
    \A k \in Rides :
      /\ k \in DOMAIN maxWaitTimes[v] <=> OpenRowsOf(k) # {}
      /\ k \in DOMAIN maxWaitTimes[v] =>
           maxWaitTimes[v][k].max_wait_time
             = SetMax({WaitMinutes(DataLines[i]) : i \in OpenRowsOf(k)})

\* A ride has an open row with a larger wait followed by a row with a smaller
\* wait and by a closed row or an open one.
C2_Witness ==
  \E v \in Variants, k \in Rides : \E i, j \in OpenRowsOf(k) :
    /\ pc[v] = "fold" /\ i < j
    /\ WaitMinutes(DataLines[i]) > WaitMinutes(DataLines[j])
    /\ maxWaitTimes[v][k].max_wait_time = WaitMinutes(DataLines[i])

(***************************************************************************)
(* C3                                                                      *)
(***************************************************************************)
\* C3: in both implementations, after any prefix of rows has been folded the
\* stored min_wait_time of a ride is the minimum wait among that ride's rows
\* that are open with adjusted hour in [10,18), also when a wait of 0 is
\* followed by a larger wait.
C3_TroughIsMinimum ==
  \A v \in Variants : pc[v] # "thrown" =>
    \A k \in Rides :
      k \in DOMAIN minWaitTimes[v] =>
        minWaitTimes[v][k].min_wait_time
          = SetMin({WaitMinutes(DataLines[i]) : i \in TroughRowsOf(k)})

(***************************************************************************)
(* C4                                                                      *)
(***************************************************************************)
C4_TroughFromEligibleRow ==
  \A v \in Variants : \A k \in Rides :
    /\ k \in DOMAIN minWaitTimes[v] <=> TroughRowsOf(k) # {}
    /\ k \in DOMAIN minWaitTimes[v] =>
         \E i \in TroughRowsOf(k) :
           /\ minWaitTimes[v][k].min_wait_time = WaitMinutes(DataLines[i])
           /\ InstantOf(minWaitTimes[v][k]) = AdjustedTimestamp(DataLines[i])

C4_IneligibleRowKeepsTrough ==
  (FoldsARow /\ ~InTroughWindow(RowFolded)) => minWaitTimes' = minWaitTimes

\* C4: a ride has a trough entry if and only if one of its rows is open with
\* adjusted hour h, 10 <= h < 18; the stored value is the wait of such a row;
\* and a row that is closed or outside that window creates or modifies no
\* trough entry.
C4_TroughEligibility ==
  [](C4_TroughFromEligibleRow) /\ [][C4_IneligibleRowKeepsTrough]_vars

\* A ride with a trough entry has open rows at adjusted hour 10 and at hour 18.
C4_Witness ==
  \E v \in Variants, k \in Rides : \E i, j \in OpenRowsOf(k) :
    /\ pc[v] = "fold"
    /\ InTroughWindow(DataLines[i]) /\ HourOfDay(DataLines[i]) = 10
    /\ ValidTimestamp(DataLines[j]) /\ HourOfDay(DataLines[j]) = 18
    /\ WaitMinutes(DataLines[j]) < WaitMinutes(DataLines[i])
    /\ minWaitTimes[v][k].min_wait_time = WaitMinutes(DataLines[i])

(***************************************************************************)
(* C5                                                                      *)
(***************************************************************************)
C5_PeakOfFirst(v, k) ==
  LET most == SetMax({WaitMinutes(DataLines[i]) : i \in OpenRowsOf(k)})
      first == SetMin({i \in OpenRowsOf(k) : WaitMinutes(DataLines[i]) = most})
      ties == {i \in OpenRowsOf(k) : WaitMinutes(DataLines[i]) = most}
  IN  (k \in DOMAIN maxWaitTimes[v] /\ Cardinality(ties) > 1) =>
        InstantOf(maxWaitTimes[v][k]) = AdjustedTimestamp(DataLines[first])

C5_TroughOfFirst(v, k) ==
  LET least == SetMin({WaitMinutes(DataLines[i]) : i \in TroughRowsOf(k)})
      first == SetMin({i \in TroughRowsOf(k) : WaitMinutes(DataLines[i]) = least})
      ties == {i \in TroughRowsOf(k) : WaitMinutes(DataLines[i]) = least}
  IN  (k \in DOMAIN minWaitTimes[v] /\ Cardinality(ties) > 1) =>
        InstantOf(minWaitTimes[v][k]) = AdjustedTimestamp(DataLines[first])

\* C5: when several eligible rows of a ride share the extreme wait, the
\* timestamp of the peak (resp. trough) entry is that of the first such row in
\* source order, for every wait value including 0.
C5_FirstExtremeKept ==
  \A v \in Variants : pc[v] # "thrown" =>
    \A k \in Rides : C5_PeakOfFirst(v, k) /\ C5_TroughOfFirst(v, k)

(***************************************************************************)
(* C6                                                                      *)
(***************************************************************************)
\* The clock label of a reading: hour and minute of its adjusted timestamp.
ClockLabel(row) == << HourOfDay(row), MinuteOfHour(row) >>

\* The number of points of a series with the clock label L.
PointsAt(series, L) == Cardinality({i \in DOMAIN series : series[i].time = L})

C6_SeriesOfRide(series, k) ==
  /\ Len(series) = Cardinality(DisplayRowsOf(k))
  /\ \A i \in DisplayRowsOf(k) :
       LET L == ClockLabel(DataLines[i])
       IN  PointsAt(series, L)
             = Cardinality({j \in DisplayRowsOf(k) : ClockLabel(DataLines[j]) = L})

\* C6: the time series of a ride, while the rows are folded and in the returned
\* ProcessedData, holds exactly one point for every row of that ride whose
\* adjusted hour (source hour + 1, wrapping at 24) lies in [8,21] and no other
\* point; a ride has a series as soon as one of its rows was folded.
C6_SeriesMembership ==
  \A v \in Variants : \A k \in Rides :
    /\ k \in DOMAIN timeData[v] <=> RowsOf(k) # {}
    /\ k \in DOMAIN timeData[v] => C6_SeriesOfRide(timeData[v][k], k)
    /\ returned[v] # Null =>
         /\ DOMAIN returned[v][1].timeData = DOMAIN timeData[v]
         /\ k \in DOMAIN timeData[v] => C6_SeriesOfRide(returned[v][1].timeData[k], k)

\* Returned: a ride with a row at adjusted hour 21 (a point) that is not its
\* latest entry, and a row past midnight (no point).
C6_Witness ==
  \E v \in Variants, k \in Rides : \E i, j \in RowsOf(k) :
    /\ returned[v] # Null
    /\ ValidTimestamp(DataLines[i]) /\ HourOfDay(DataLines[i]) = 21
    /\ ValidTimestamp(DataLines[j]) /\ HourOfDay(DataLines[j]) = 0
    /\ Len(returned[v][1].timeData[k]) = 1
    /\ InstantOf(returned[v][1].currentData[k]) = AdjustedTimestamp(DataLines[j])

(***************************************************************************)
(* C7                                                                      *)
(***************************************************************************)
C7_PointOfRowFolded(v) ==
  LET k == RowFolded.rideName
      before == IF k \in DOMAIN timeData[v] THEN timeData[v][k] ELSE << >>
  IN  IF IsOpenFlag(RowFolded)
      THEN timeData'[v][k] =
             Append(before, [time |-> ClockLabel(RowFolded),
                             waitTime |-> Some(WaitMinutes(RowFolded)),
                             isOpen |-> TRUE])
      ELSE /\ timeData'[v][k] =
                Append(before, [time |-> ClockLabel(RowFolded),
                                waitTime |-> Null,
                                isOpen |-> FALSE])
           /\ maxWaitTimes'[v] = maxWaitTimes[v]
           /\ minWaitTimes'[v] = minWaitTimes[v]

\* C7: folding a row whose open flag is not "true" (case-insensitively) and
\* whose adjusted hour is in [8,21] appends a point with waitTime null and
\* isOpen false and changes no peak and no trough entry; the point of an open
\* row carries the row's numeric wait and isOpen true.
C7_ClosedReading ==
  [][(FoldsARow /\ InDisplayWindow(RowFolded)) =>
       \A v \in Variants : pc[v] = "fold" => C7_PointOfRowFolded(v)]_vars

\* A closed row in the display window was folded behind an open row of the same
\* ride in the trough window, with a larger wait than that row.
C7_Witness ==
  \E v \in Variants, k \in Rides : \E i, j \in RowsOf(k) :
    /\ pc[v] = "fold" /\ i < j /\ j = Len(DataLines)
    /\ InTroughWindow(DataLines[i])
    /\ InDisplayWindow(DataLines[j]) /\ ~IsOpenFlag(DataLines[j])
    /\ WaitMinutes(DataLines[j]) > WaitMinutes(DataLines[i])
    /\ timeData[v][k][Len(timeData[v][k])].waitTime = Null
    /\ maxWaitTimes[v][k].max_wait_time = WaitMinutes(DataLines[i])

(***************************************************************************)
(* C8                                                                      *)
(***************************************************************************)
\* The point of a reading.
PointOf(row) ==
  [time |-> ClockLabel(row),
   waitTime |-> IF IsOpenFlag(row) THEN Some(WaitMinutes(row)) ELSE Null,
   isOpen |-> IsOpenFlag(row)]

RECURSIVE FoldOrder(_, _)
\* The points of ride k among the first n data lines, in the order of the rows.
FoldOrder(k, n) ==
  IF n = 0 THEN << >>
  ELSE IF n \in DisplayRowsOf(k)
       THEN Append(FoldOrder(k, n - 1), PointOf(DataLines[n]))
       ELSE FoldOrder(k, n - 1)

\* Time of day of a clock label, in minutes.
MinuteOfDay(time) == time[1] * 60 + time[2]

PointsWithLabel(series, L) ==
  LET at(p) == p.time = L
  IN  SelectSeq(series, at)

C8_SortedStable(series, k) ==
  /\ \A i, j \in DOMAIN series :
       i < j => MinuteOfDay(series[i].time) <= MinuteOfDay(series[j].time)
  /\ \A i \in DOMAIN series :
       PointsWithLabel(series, series[i].time)
         = PointsWithLabel(FoldOrder(k, Len(DataLines)), series[i].time)

\* C8: in the returned ProcessedData every ride's time series is sorted
\* non-decreasing by the time of day of its clock label, and points with equal
\* clock labels keep the relative order in which their rows were folded.
C8_SeriesOrdering ==
  \A v \in Variants : returned[v] # Null =>
    \A k \in DOMAIN returned[v][1].timeData :
      C8_SortedStable(returned[v][1].timeData[k], k)

\* Returned: a series whose rows were folded against the clock.
C8_Witness ==
  \E v \in Variants, k \in Rides :
    /\ returned[v] # Null
    /\ k \in DOMAIN returned[v][1].timeData
    /\ Len(returned[v][1].timeData[k]) = 2
    /\ returned[v][1].timeData[k] # FoldOrder(k, Len(DataLines))

C10_EmptyInput ==
  \A v \in Variants : DataLines = << >> =>
    /\ pc[v] # "thrown"
    /\ DOMAIN latestEntries[v] = {} /\ DOMAIN maxWaitTimes[v] = {}
    /\ DOMAIN minWaitTimes[v] = {} /\ DOMAIN timeData[v] = {}
    /\ pc[v] = "done" =>
         /\ returned[v] # Null
         /\ DOMAIN returned[v][1].currentData = {}
         /\ DOMAIN returned[v][1].maxData = {}
         /\ DOMAIN returned[v][1].minData = {}
         /\ DOMAIN returned[v][1].timeData = {}
         /\ returned[v][1].latestTimestamp = Null

\* Returned for a text that is the header line alone.
C10_Witness ==
  /\ rows = << HeaderRow >>
  /\ \A v \in Variants : pc[v] = "done" /\ returned[v] # Null

(***************************************************************************)
(* C11                                                                     *)
(***************************************************************************)
\* The instants of the valid-timestamp rows of ride k.
ValidInstantsOf(k) ==
  {AdjustedTimestamp(DataLines[i]) : i \in {j \in RowsOf(k) : ValidTimestamp(DataLines[j])}}

\* C11: a row with an unparseable timestamp is folded like any other row (the
\* fold goes on, wherever the row stands and whether or not it is open) and
\* never wins: every latest, peak and trough entry comes from a row with a valid
\* timestamp.
C11_InvalidNeverWins ==
  \A v \in Variants :
    (\A i \in 1..Len(DataLines) : HasFields(DataLines[i])) =>
      /\ pc[v] # "thrown"
      /\ \A k \in Rides :
           /\ k \in DOMAIN latestEntries[v] =>
                InstantOf(latestEntries[v][k]) \in ValidInstantsOf(k)
           /\ k \in DOMAIN maxWaitTimes[v] =>
                InstantOf(maxWaitTimes[v][k]) \in ValidInstantsOf(k)
           /\ k \in DOMAIN minWaitTimes[v] =>
                InstantOf(minWaitTimes[v][k]) \in ValidInstantsOf(k)

(***************************************************************************)
(* C12                                                                     *)
(***************************************************************************)
\* C12: processCSVData never throws: whatever the rows, the forEach reaches the
\* end of the text, and a ProcessedData is returned once it has.
C12_NeverThrows ==
  \A v \in Variants :
    /\ pc[v] \in {"fold", "done"}
    /\ pc[v] = "done" => returned[v] # Null

(***************************************************************************)
(* C13                                                                     *)
(***************************************************************************)
C13_SeriesNonNegative(td) ==
  \A k \in DOMAIN td : \A i \in DOMAIN td[k] :
    td[k][i].waitTime = Null \/ td[k][i].waitTime[1] >= 0

\* C13: every wait held in a latest, peak, trough or time-series entry is an
\* integer >= 0 (or null for a closed time-series point), whatever the wait
\* field of the row.
C13_NonNegativeWaits ==
  \A v \in Variants :
    /\ \A k \in DOMAIN latestEntries[v] : latestEntries[v][k].wait_time >= 0
    /\ \A k \in DOMAIN maxWaitTimes[v] : maxWaitTimes[v][k].max_wait_time >= 0
    /\ \A k \in DOMAIN minWaitTimes[v] : minWaitTimes[v][k].min_wait_time >= 0
    /\ C13_SeriesNonNegative(timeData[v])
    /\ returned[v] # Null => C13_SeriesNonNegative(returned[v][1].timeData)

(***************************************************************************)
(* C14                                                                     *)
(***************************************************************************)
\* C14: stepped row by row over the same rows, the two dashboards' processCSVData
\* hold identical latest, peak, trough and time-series accumulators after every
\* row and return identical ProcessedData.
C14_VariantsAgree ==
  /\ pc[1] = pc[2]
  /\ latestEntries[1] = latestEntries[2]
  /\ maxWaitTimes[1] = maxWaitTimes[2]
  /\ minWaitTimes[1] = minWaitTimes[2]
  /\ timeData[1] = timeData[2]
  /\ returned[1] = returned[2]

(***************************************************************************)
(* C20                                                                     *)
(***************************************************************************)
\* C20: after any prefix of rows has been folded, the rides with a trough entry
\* are among the rides with a peak entry, which are among the rides with a
\* latest entry, which are exactly the keys of the time-series mapping; and a
\* ride's min_wait_time is at most its max_wait_time.
C20_Containment ==
  \A v \in Variants : pc[v] # "thrown" =>
    /\ DOMAIN minWaitTimes[v] \subseteq DOMAIN maxWaitTimes[v]
    /\ DOMAIN maxWaitTimes[v] \subseteq DOMAIN latestEntries[v]
    /\ DOMAIN latestEntries[v] = DOMAIN timeData[v]
    /\ \A k \in DOMAIN minWaitTimes[v] :
         minWaitTimes[v][k].min_wait_time <= maxWaitTimes[v][k].max_wait_time

\* A ride seen only outside the display window (an empty series, a peak and no
\* trough) beside a ride whose trough is below its peak.
C20_Witness ==
  \E v \in Variants : \E k, m \in Rides :
    /\ pc[v] = "fold"
    /\ k \in DOMAIN timeData[v] /\ timeData[v][k] = << >>
    /\ k \in DOMAIN maxWaitTimes[v] /\ k \notin DOMAIN minWaitTimes[v]
    /\ m \in DOMAIN minWaitTimes[v]

(***************************************************************************)
(* C15                                                                     *)
(***************************************************************************)
\* The calls that have ended: the earlier ones and, once it has ended, the
\* running one.
EndedCalls ==
  IF \A v \in Variants : pc[v] # "fold"
  THEN Append(calls, [text |-> rows, pc |-> pc, returned |-> returned])
  ELSE calls

\* C15: the ProcessedData a call of processCSVData returns depends on its text
\* alone: two calls on the same text end alike, whatever calls ran before or
\* between them.
C15_SameTextSameResult ==
  \A i, j \in DOMAIN EndedCalls :
    EndedCalls[i].text = EndedCalls[j].text =>
      /\ EndedCalls[i].pc = EndedCalls[j].pc
      /\ EndedCalls[i].returned = EndedCalls[j].returned

\* Three calls have ended: the first and the third on the same text of two data
\* rows, the second on another text with data.
C15_Witness ==
  /\ Len(EndedCalls) = 3
  /\ EndedCalls[1].text = EndedCalls[3].text
  /\ Len(EndedCalls[1].text) = 3
  /\ EndedCalls[2].text # EndedCalls[1].text
  /\ Len(EndedCalls[2].text) > 1
  /\ \A v \in Variants : EndedCalls[3].returned[v] # Null

(***************************************************************************)
(* C16                                                                     *)
(***************************************************************************)
\* A call of fetchCSVFromS3 ends on a response that is not ok or on a network
\* error.
TransportFailure ==
  /\ finished' # finished
  /\ finished'.outcome \in {"http", "network"}

TransportFailureMessage ==
  IF finished'.outcome = "http"
  THEN HttpErrorMessage(finished'.status)
  ELSE NetworkErrorMessage

\* The ids of the calls of fetchCSVFromS3 that have not finished.
Outstanding(calling) == {f.id : f \in calling}

\* C16: when a fetch ends with a status that is not a success or with a
\* network error, error is the failure's message, isLoading is false and no
\* fetch is outstanding; and a fetch is only ever started by a click on an
\* enabled park button, never by a retry.
C16_TransportFailure ==
  [][ /\ TransportFailure =>
           /\ error' = Some(TransportFailureMessage)
           /\ isLoading' = FALSE
           /\ inflight' = {}
           /\ issued' = issued
      /\ ~(Outstanding(inflight') \subseteq Outstanding(inflight)) =>
           \E park \in Parks : ParkClick(park)
    ]_vars

\* The second fetch has ended with status 404 after a first one was applied:
\* the message is displayed, nothing is loading or outstanding.
C16_Witness ==
  /\ finished = [id |-> 2, outcome |-> "http", status |-> 404]
  /\ error = Some(HttpErrorMessage(404))
  /\ Len(applied) = 1
  /\ ~isLoading
  /\ inflight = {}
  /\ issued = 2

(***************************************************************************)
(* C17                                                                     *)
(***************************************************************************)
\* The displayed latest, peak, trough, series and label.
Displayed ==
  [allData |-> allData, maxData |-> maxData, minData |-> minData,
   attractionTimeData |-> attractionTimeData, lastUpdated |-> lastUpdated]

\* What the dashboard displays when it displays the ProcessedData of a text
\* and nothing else.
DisplayOf(text) ==
  LET processed == ProcessCSVData(dashboard, text)[1]
  IN  [allData |-> processed.currentData, maxData |-> processed.maxData,
       minData |-> processed.minData, attractionTimeData |-> processed.timeData,
       lastUpdated |-> Some(LastUpdatedLabel(processed.latestTimestamp))]

\* What the dashboard displays before any ProcessedData.
DisplayOfNothing ==
  [allData |-> EmptyObject, maxData |-> EmptyObject, minData |-> EmptyObject,
   attractionTimeData |-> EmptyObject, lastUpdated |-> Null]

\* C17 as stated: once a fetch has finished, whether applied or failed, the
\* displayed entries are derived from that fetch's payload alone; a fetch that
\* failed delivered none, so nothing of an earlier fetch is displayed.
C17_OnlyLastFetch ==
  (finished.id # 0 /\ inflight = {}) =>
     IF finished.outcome = "applied"
     THEN Displayed = DisplayOf(applied[Len(applied)])
     ELSE /\ allData = EmptyObject
          /\ maxData = EmptyObject
          /\ minData = EmptyObject
          /\ attractionTimeData = EmptyObject

\* C17 amended: the displayed state is the ProcessedData of the last text that
\* reached the setters and of nothing else (of no text before the first one);
\* a fetch that fails leaves it as it was.
C17_LastAppliedOnly ==
  Displayed = IF applied = << >> THEN DisplayOfNothing
              ELSE DisplayOf(applied[Len(applied)])

\* A text with rides A and B was applied, then one with ride B alone, then a
\* fetch failed: ride A is no longer displayed, ride B is.
C17_Witness ==
  /\ applied = << TextAB, TextB >>
  /\ finished = [id |-> 3, outcome |-> "http", status |-> 403]
  /\ DOMAIN allData = {"B"}
  /\ DOMAIN attractionTimeData = {"B"}
  /\ inflight = {}

(***************************************************************************)
(* C18                                                                     *)
(***************************************************************************)
\* C18: at most one call of fetchCSVFromS3 is outstanding, isLoading is true
\* exactly when one is, and the call that finished last is the one that was
\* started last, so that no response is applied after a later one.
C18_SingleFetch ==
  /\ Cardinality(inflight) <= 1
  /\ isLoading <=> inflight # {}
  /\ inflight = {} => finished.id = issued
  /\ inflight # {} => Outstanding(inflight) = {issued} /\ finished.id = issued - 1

\* The second fetch is outstanding, awaiting its text, after the first one
\* has finished.
C18_Witness ==
  /\ isLoading
  /\ inflight = {[id |-> 2, stage |-> "text"]}
  /\ finished.id = 1

(***************************************************************************)
(* C19                                                                     *)
(***************************************************************************)
\* C19: in the date-mode dashboard, whenever no fetch is outstanding the
\* selected attraction is empty or the name of a ride of the displayed latest
\* data.
C19_SelectionDisplayed ==
  (dashboard = 2 /\ inflight = {}) =>
     selectedAttraction = "" \/ selectedAttraction \in DOMAIN allData

====
